---- MODULE Spec2Model ----
(***************************************************************************)
(* Model of the WIIL Python SDK transport (wiil/client/http_client.py),    *)
(* its exception types and the resource wrappers built on it.              *)
(*                                                                         *)
(* One action per public operation.  The server's answer (or the failure   *)
(* of the requests library) is an input of the action, drawn from Replies. *)
(* Python values are tagged records [k |-> kind, v |-> payload]; a dict is *)
(* a function from its keys to values.  Exceptions are records carrying    *)
(* their class, and the class hierarchy decides which except clause runs.  *)
(***************************************************************************)
EXTENDS Integers, Sequences, FiniteSets, TLC

VARIABLES
    http,     \* the HttpClient instance: api_key, base_url, timeout, session headers
    calls,    \* number of calls made on the client so far
    last,     \* the call just made: operation, arguments and the reply it met
    wire,     \* the HTTP requests that call issued on the session, in order
    result,   \* what the call gave its caller: a return value or a raised exception
    client,   \* the WiilClient facade: the attributes set on it and its configuration
    threads   \* the calls threads have in progress on the shared transport

vars == <<http, calls, last, wire, result, client, threads>>

\* Bound of the exploration: calls made on one client.
MaxCalls == 2

---------------------------------------------------------------------------
(* Python / JSON values *)

JNull == [k |-> "null"]
JBool(b) == [k |-> "bool", v |-> b]
JNum(n) == [k |-> "num", v |-> n]
JStr(s) == [k |-> "str", v |-> s]
JList(s) == [k |-> "list", v |-> s]
JObj(f) == [k |-> "obj", v |-> f]

EmptyDict == JObj(<<>>)

\* isinstance(x, dict)
IsDict(x) == x.k = "obj"

\* Python truth value of x
Truthy(x) ==
    CASE x.k = "null" -> FALSE
      [] x.k = "bool" -> x.v
      [] x.k = "num"  -> x.v # 0
      [] x.k = "str"  -> x.v # ""
      [] x.k = "list" -> Len(x.v) > 0
      [] x.k = "obj"  -> DOMAIN x.v # {}
      [] OTHER        -> TRUE

\* d.get(key, default) on a dict d
DictGet(d, key, default) == IF key \in DOMAIN d.v THEN d.v[key] ELSE default

\* The partial dicts over a set of keys: every subset of keys, every value.
PartialDicts(keys, values) ==
    UNION {{JObj(f) : f \in [ks -> values]} : ks \in SUBSET keys}

---------------------------------------------------------------------------
(* Exceptions: classes of requests, json, pydantic and wiil.errors *)

\* The classes an exception class is an instance of (itself and its bases).
\* requests.exceptions.JSONDecodeError derives from InvalidJSONError (a
\* RequestException) and from json.JSONDecodeError; ConnectTimeout derives
\* from ConnectionError and from Timeout.
Mro(cls) ==
    CASE cls = "ConnectTimeout"   -> {"ConnectTimeout", "ConnectionError", "Timeout", "RequestException"}
      [] cls = "ReadTimeout"      -> {"ReadTimeout", "Timeout", "RequestException"}
      [] cls = "ConnectionError"  -> {"ConnectionError", "RequestException"}
      [] cls = "TooManyRedirects" -> {"TooManyRedirects", "RequestException"}
      [] cls = "HTTPError"        -> {"HTTPError", "RequestException"}
      [] cls = "requests.JSONDecodeError" ->
            {"requests.JSONDecodeError", "InvalidJSONError", "RequestException",
             "json.JSONDecodeError", "ValueError"}
      [] cls = "ValidationError"  -> {"ValidationError", "ValueError"}
      [] cls = "AttributeError"   -> {"AttributeError"}
      [] cls = "WiilAPIError"        -> {"WiilAPIError", "WiilError"}
      [] cls = "WiilValidationError" -> {"WiilValidationError", "WiilError"}
      [] cls = "WiilNetworkError"    -> {"WiilNetworkError", "WiilError"}
      [] cls = "WiilConfigurationError" -> {"WiilConfigurationError", "WiilError"}
      [] OTHER -> {cls}

\* isinstance(e, cls)
IsInstance(e, cls) == cls \in Mro(e.cls)

\* WiilAPIError(message, status_code=None, code=None, details=None)
WiilAPIError(message, status_code, code, details) ==
    [cls |-> "WiilAPIError", message |-> message, status_code |-> status_code,
     code |-> code, details |-> details]

\* WiilValidationError(message, details=None)
WiilValidationError(message, details) ==
    [cls |-> "WiilValidationError", message |-> message, details |-> details]

\* WiilNetworkError(message, details=None)
WiilNetworkError(message, details) ==
    [cls |-> "WiilNetworkError", message |-> message, details |-> details]

\* An exception of a library: its class and str(e).
LibError(cls, text) == [cls |-> cls, message |-> text]

\* What a piece of code gives its caller.
Return(v) == [kind |-> "return", value |-> v]
Raise(e) == [kind |-> "raise", exc |-> e]

---------------------------------------------------------------------------
(* The server and the network, as the requests library shows them *)

\* Body texts: the serialisation of a JSON value, or text that is not JSON.
JsonText(v) == [k |-> "json", v |-> v]
RawText(s) == [k |-> "raw", v |-> s]

\* response.text as a Python str
PyText(text) == [k |-> "text", v |-> text]

\* bool(response.text)
TextNonEmpty(text) == text.k = "json" \/ text.v # ""

HttpReply(status, text) == [k |-> "http", text |-> text, status |-> status]
FailReply(cls, text) == [k |-> "fail", exc |-> LibError(cls, text)]

\* response.json(): the parsed value, or requests.exceptions.JSONDecodeError
ResponseJson(text) ==
    IF text.k = "json"
    THEN Return(text.v)
    ELSE Raise(LibError("requests.JSONDecodeError", "Expecting value: line 1 column 1 (char 0)"))

\* Variant: only 5xx statuses count as errors
RaiseForServerErrors(reply) == 500 <= reply.status /\ reply.status < 600

\* response.raise_for_status() raises HTTPError exactly for 4xx and 5xx
RaiseForStatus(reply) == 400 <= reply.status /\ reply.status < 600

HTTPError(reply) == [cls |-> "HTTPError", message |-> "HTTP error", response |-> reply]

---------------------------------------------------------------------------
(* Schemas: the pydantic models of wiil/models used to validate requests *)

\* A field: its name, its alias (the name when it has none), its type,
\* whether it is required, whether None is accepted, its default, min_length.
Fld(name, alias, type, required, nullable, default, min_length) ==
    [default |-> default, name |-> name, alias |-> alias, type |-> type,
     required |-> required, nullable |-> nullable, min_length |-> min_length]

\* Optional[type] = Field(None, alias=alias)
Opt(name, alias, type) == Fld(name, alias, type, FALSE, TRUE, JNull, 0)

\* wiil.models.base.BaseModel: id is required, the timestamps are optional.
BaseModelFields ==
    << Fld("id", "id", "str", TRUE, FALSE, JNull, 0),
       Opt("created_at", "createdAt", "int"),
       Opt("updated_at", "updatedAt", "int") >>

AddressFields ==
    << Fld("street", "street", "str", TRUE, FALSE, JNull, 2),
       Opt("street2", "street2", "str"),
       Fld("city", "city", "str", TRUE, FALSE, JNull, 2),
       Fld("state", "state", "str", TRUE, FALSE, JNull, 2),
       Fld("postal_code", "postalCode", "str", TRUE, FALSE, JNull, 2),
       Fld("country", "country", "str", TRUE, FALSE, JNull, 2) >>

CreateProjectFields ==
    BaseModelFields \o
    << Fld("name", "name", "str", TRUE, FALSE, JNull, 2),
       Opt("region_id", "regionId", "str"),
       Opt("description", "description", "str"),
       Opt("compliance", "compliance", "list_str"),
       Opt("current_subscription_id", "currentSubscriptionId", "str"),
       Opt("service_status", "serviceStatus", "ServiceStatus"),
       Opt("metadata", "metadata", "dict") >>

UpdateProjectFields ==
    << Fld("id", "id", "str", TRUE, FALSE, JNull, 0),
       Opt("created_at", "createdAt", "int"),
       Opt("updated_at", "updatedAt", "int"),
       Fld("name", "name", "str", FALSE, TRUE, JNull, 2),
       Opt("region_id", "regionId", "str"),
       Opt("description", "description", "str"),
       Opt("compliance", "compliance", "list_str"),
       Opt("current_subscription_id", "currentSubscriptionId", "str"),
       Opt("service_status", "serviceStatus", "ServiceStatus"),
       Opt("metadata", "metadata", "dict") >>

CreateCustomerFields ==
    BaseModelFields \o
    << Opt("customer_id", "customerId", "str"),
       Opt("phone_number", "phone_number", "str"),
       Opt("firstname", "firstname", "str"),
       Opt("lastname", "lastname", "str"),
       Opt("company", "company", "str"),
       Opt("timezone", "timezone", "str"),
       Opt("email", "email", "EmailStr"),
       Fld("preferred_language", "preferred_language", "str", FALSE, FALSE, JStr("en"), 0),
       Fld("call_priority", "call_priority", "CallPriority", FALSE, FALSE, JStr("medium"), 0),
       Fld("preferred_contact_method", "preferred_contact_method", "PreferredContactMethod",
           FALSE, FALSE, JStr("email"), 0),
       Opt("best_time_to_call", "best_time_to_call", "BestTimeToCall"),
       Opt("notes", "notes", "str"),
       Opt("tags", "tags", "list_str"),
       Opt("custom_fields", "custom_fields", "dict"),
       Opt("channel_id", "channelId", "str"),
       Opt("address", "address", "Address"),
       Fld("is_validated_names", "isValidatedNames", "bool", FALSE, FALSE, JBool(FALSE), 0) >>

UpdateCustomerFields ==
    << Fld("id", "id", "str", TRUE, FALSE, JNull, 0),
       Opt("created_at", "createdAt", "int"),
       Opt("updated_at", "updatedAt", "int"),
       Opt("customer_id", "customerId", "str"),
       Opt("phone_number", "phone_number", "str"),
       Opt("firstname", "firstname", "str"),
       Opt("lastname", "lastname", "str"),
       Opt("company", "company", "str"),
       Opt("timezone", "timezone", "str"),
       Opt("email", "email", "EmailStr"),
       Opt("preferred_language", "preferred_language", "str"),
       Opt("call_priority", "call_priority", "CallPriority"),
       Opt("preferred_contact_method", "preferred_contact_method", "PreferredContactMethod"),
       Opt("best_time_to_call", "best_time_to_call", "BestTimeToCall"),
       Opt("notes", "notes", "str"),
       Opt("tags", "tags", "list_str"),
       Opt("custom_fields", "custom_fields", "dict"),
       Opt("channel_id", "channelId", "str"),
       Opt("address", "address", "Address"),
       Opt("is_validated_names", "isValidatedNames", "bool") >>

\* The fields of a schema class, in declaration order.
FieldsOf(schema) ==
    CASE schema = "CreateProject"  -> CreateProjectFields
      [] schema = "UpdateProject"  -> UpdateProjectFields
      [] schema = "CreateCustomer" -> CreateCustomerFields
      [] schema = "UpdateCustomer" -> UpdateCustomerFields
      [] schema = "Address"        -> AddressFields

\* Members of the str enums
ServiceStatus == {"active", "inactive", "suspended"}
CallPriority == {"high", "medium", "low"}
PreferredContactMethod == {"email", "phone", "sms"}
BestTimeToCall == {"morning", "afternoon", "evening", "anytime"}

\* The strings of the model that pydantic's EmailStr accepts.
IsEmail(s) == s \in {"jane.smith@example.com", "newemail@example.com"}

\* The input key a field is read from: its alias first, then its name
\* (validate_by_alias and validate_by_name are both set); "" when absent.
InputKey(f, kw) ==
    IF f.alias \in DOMAIN kw THEN f.alias
    ELSE IF f.name \in DOMAIN kw THEN f.name
    ELSE ""

RECURSIVE FieldErrors(_, _)

\* Whether a non-None value is accepted by a field type (no coercion of
\* numbers to str; the model's strings are never numerals).
TypeOk(type, v) ==
    CASE type = "str"      -> v.k = "str"
      [] type = "int"      -> v.k = "num"
      [] type = "bool"     -> v.k = "bool"
      [] type = "dict"     -> v.k = "obj"
      [] type = "list_str" -> v.k = "list" /\ \A i \in DOMAIN v.v : v.v[i].k = "str"
      [] type = "EmailStr" -> v.k = "str" /\ IsEmail(v.v)
      [] type = "ServiceStatus"  -> v.k = "str" /\ v.v \in ServiceStatus
      [] type = "CallPriority"   -> v.k = "str" /\ v.v \in CallPriority
      [] type = "PreferredContactMethod" -> v.k = "str" /\ v.v \in PreferredContactMethod
      [] type = "BestTimeToCall" -> v.k = "str" /\ v.v \in BestTimeToCall
      [] type = "Address"  -> v.k = "obj" /\ FieldErrors(AddressFields, v.v) = <<>>

\* The error pydantic reports for one field, "" when the field is accepted.
FieldError(f, kw) ==
    LET key == InputKey(f, kw) IN
    IF key = "" THEN (IF f.required THEN "missing" ELSE "")
    ELSE LET v == kw[key] IN
         IF v = JNull THEN (IF f.nullable THEN "" ELSE f.type \o "_type")
         ELSE IF ~TypeOk(f.type, v) THEN f.type \o "_type"
         ELSE IF f.type = "str" /\ Len(v.v) < f.min_length THEN "string_too_short"
         ELSE ""

\* ValidationError.errors(): one entry per rejected field, in field order.
FieldErrors(fields, kw) ==
    IF fields = <<>> THEN <<>>
    ELSE LET f == Head(fields)
             e == FieldError(f, kw)
             rest == FieldErrors(Tail(fields), kw)
         IN IF e = "" THEN rest
            ELSE <<JObj([type |-> JStr(e), loc |-> JList(<<JStr(f.alias)>>)])>> \o rest

\* An instance of a schema class: every field by its name, defaults filled
\* in, unknown keys ignored (extra='ignore').
Instance(schema, kw) ==
    LET fields == FieldsOf(schema)
        names == {fields[i].name : i \in DOMAIN fields}
        fieldOf(n) == CHOOSE f \in {fields[i] : i \in DOMAIN fields} : f.name = n
    IN [k |-> "model", cls |-> schema,
        v |-> [n \in names |->
                 LET key == InputKey(fieldOf(n), kw)
                 IN IF key = "" THEN fieldOf(n).default ELSE kw[key]]]

\* schema(**kw): the instance, or pydantic's ValidationError
Construct(schema, kw) ==
    LET errors == FieldErrors(FieldsOf(schema), kw) IN
    IF errors = <<>>
    THEN Return(Instance(schema, kw))
    ELSE Raise([cls |-> "ValidationError", message |-> "validation error", errors |-> JList(errors)])

\* model.model_dump(by_alias=..., exclude_none=True)
ModelDump(model, by_alias) ==
    LET fields == FieldsOf(model.cls)
        kept == {fields[i] : i \in {j \in DOMAIN fields : model.v[fields[j].name] # JNull}}
        keyOf(f) == IF by_alias THEN f.alias ELSE f.name
    IN JObj([key \in {keyOf(f) : f \in kept} |->
               model.v[(CHOOSE f \in kept : keyOf(f) = key).name]])

\* isinstance(x, BaseModel)
IsModel(x) == x.k = "model"

---------------------------------------------------------------------------
(* HttpClient: wiil/client/http_client.py *)

\* str.rstrip('/') on a string given as its pieces
RECURSIVE RStripSlash(_)
RStripSlash(pieces) ==
    IF pieces # <<>> /\ pieces[Len(pieces)] = "/"
    THEN RStripSlash(SubSeq(pieces, 1, Len(pieces) - 1))
    ELSE pieces

\* The string made of the pieces
RECURSIVE Joined(_)
Joined(pieces) == IF pieces = <<>> THEN "" ELSE Head(pieces) \o Joined(Tail(pieces))

\* HttpClient.__init__: the attributes, and the one requests.Session() it
\* creates: its default headers, its empty cookie jar, open. sessions counts
\* the sessions this transport has created.
HttpClientInit(config) ==
    [api_key  |-> config.api_key,
     base_url |-> Joined(RStripSlash(config.base_url)),
     timeout  |-> config.timeout,
     headers  |-> [h \in {"Content-Type", "X-WIIL-API-Key"} |->
                     IF h = "Content-Type" THEN "application/json" ELSE config.api_key],
     cookies  |-> {},
     closed   |-> FALSE,
     sessions |-> 1]

\* Variant: the default base URL whatever the client was configured with
UrlOnDefaultBase(self, path) == "https://api.wiil.io/v1" \o path

\* url = f"{self.base_url}{path}"
Url(self, path) == self.base_url \o path

\* kwargs.pop('timeout', self.timeout)
TimeoutOf(self, kwargs) ==
    IF "timeout" \in DOMAIN kwargs THEN kwargs["timeout"] ELSE self.timeout

\* No json= argument
NoBody == [k |-> "absent"]

\* Variant: the request is sent again after the first attempt
SessionRequestRetried(self, method, url, json, timeout) ==
    LET request == [method |-> method, url |-> url, headers |-> self.headers,
                    json |-> json, timeout |-> timeout, cookies |-> self.cookies]
    IN <<request, request>>

\* self.session.<method>(url, json=..., timeout=...): the requests this one
\* call puts on the wire (the session mounts no retrying adapter). The
\* session adds its default headers and the cookies of its jar.
SessionRequest(self, method, url, json, timeout) ==
    << [method |-> method, url |-> url, headers |-> self.headers,
        json |-> json, timeout |-> timeout, cookies |-> self.cookies] >>

\* The cookies the session takes from the response to a request it sent
CookiesSet(requests, reply) ==
    IF requests # <<>> /\ reply.k = "http" /\ "set_cookie" \in DOMAIN reply
    THEN {reply.set_cookie}
    ELSE {}

\* Variant: __del__ leaves the session open
HttpClientDelLeavingOpen(self) == self

\* HttpClient.__del__: the session, if the instance has one, is closed
HttpClientDel(self) ==
    IF self.sessions > 0 THEN [self EXCEPT !.closed = TRUE] ELSE self

\* Variant: the timeout of the call is stored on the transport
SessionAfterStoringTimeout(self, requests, reply) ==
    IF requests = <<>> THEN self
    ELSE [self EXCEPT !.timeout = requests[1].timeout,
                      !.cookies = @ \cup CookiesSet(requests, reply)]

\* Variant: the session keeps no cookie
SessionAfterKeepingNoCookie(self, requests, reply) == self

\* The transport after a call: no verb assigns an attribute of the transport
\* or of its session; the session itself keeps the cookies it was sent.
SessionAfter(self, requests, reply) ==
    [self EXCEPT !.cookies = @ \cup CookiesSet(requests, reply)]

\* Variant: the data field is used only when success is true
UnwrapOnSuccess(response_data) ==
    IF IsDict(response_data) /\ "data" \in DOMAIN response_data.v
                             /\ DictGet(response_data, "success", JNull) = JBool(TRUE)
    THEN response_data.v["data"]
    ELSE response_data

\* Variant: the data field is used only when it is truthy
UnwrapTruthyData(response_data) ==
    IF IsDict(response_data) /\ Truthy(DictGet(response_data, "data", JNull))
    THEN response_data.v["data"]
    ELSE response_data

\* The data field of the APIResponse wrapper, else the whole parsed body
Unwrap(response_data) ==
    IF IsDict(response_data) /\ "data" \in DOMAIN response_data.v
    THEN response_data.v["data"]
    ELSE response_data

\* What the session call gives: the response, or the library's exception
SessionOutcome(reply) ==
    IF reply.k = "fail" THEN Raise(reply.exc) ELSE Return(reply)

\* The try block of get, post, put and patch after the session call:
\* raise_for_status(), response.json(), unwrap.
ParseResponse(reply) ==
    LET sent == SessionOutcome(reply) IN
    IF sent.kind = "raise" THEN sent
    ELSE IF RaiseForStatus(reply) THEN Raise(HTTPError(reply))
    ELSE LET parsed == ResponseJson(reply.text) IN
         IF parsed.kind = "raise" THEN parsed
         ELSE Return(Unwrap(parsed.value))

\* Variant: delete parses the body whether or not it is empty
ParseDeleteResponseAlwaysJson(reply) == ParseResponse(reply)

\* The try block of delete: an empty body gives None.
ParseDeleteResponse(reply) ==
    LET sent == SessionOutcome(reply) IN
    IF sent.kind = "raise" THEN sent
    ELSE IF RaiseForStatus(reply) THEN Raise(HTTPError(reply))
    ELSE IF TextNonEmpty(reply.text)
         THEN LET parsed == ResponseJson(reply.text) IN
              IF parsed.kind = "raise" THEN parsed
              ELSE Return(Unwrap(parsed.value))
         ELSE Return(JNull)

\* "Request failed with status <status_code>"
RequestFailedMessage(status_code) ==
    JStr("Request failed with status " \o ToString(status_code))

\* x.get(...) on a value that is no dict raises AttributeError
HasGet(x) == IsDict(x)

\* HttpClient._handle_http_error: the WiilAPIError it returns, or the
\* exception that leaves it.
HandleHttpError(response) ==
    LET status_code == response.status
        parsed == ResponseJson(response.text)
        fallback == Return(WiilAPIError(RequestFailedMessage(status_code), JNum(status_code),
                                        JStr("UNKNOWN_ERROR"),
                                        JObj([response_text |-> PyText(response.text)])))
    IN
    IF parsed.kind = "raise"
    THEN \* except (json.JSONDecodeError, ValueError): pass
         IF IsInstance(parsed.exc, "json.JSONDecodeError") \/ IsInstance(parsed.exc, "ValueError")
         THEN fallback
         ELSE parsed
    ELSE LET error_data == parsed.value IN
         IF IsDict(error_data) /\ ~Truthy(DictGet(error_data, "success", JBool(TRUE)))
         THEN LET error_info == DictGet(error_data, "error", EmptyDict) IN
              IF ~HasGet(error_info)
              THEN Raise(LibError("AttributeError", "object has no attribute 'get'"))
              ELSE Return(WiilAPIError(
                       DictGet(error_info, "message", RequestFailedMessage(status_code)),
                       JNum(status_code),
                       DictGet(error_info, "code", JStr("UNKNOWN_ERROR")),
                       DictGet(error_info, "details", JNull)))
         ELSE fallback

\* Variant: the ConnectionError clause written before the Timeout clause
ExceptOrderConnectionFirst ==
    <<"ConnectionError", "Timeout", "HTTPError", "RequestException", "json.JSONDecodeError">>

\* Variant: no catch-all RequestException clause
ExceptOrderNoCatchAll ==
    <<"Timeout", "ConnectionError", "HTTPError", "json.JSONDecodeError">>

\* The classes of the except clauses every verb ends with, in their order
ExceptOrder ==
    <<"Timeout", "ConnectionError", "HTTPError", "RequestException", "json.JSONDecodeError">>

\* The class of the first clause the exception is an instance of, "" if none
MatchingClause(e) ==
    LET hits == {i \in DOMAIN ExceptOrder : IsInstance(e, ExceptOrder[i])} IN
    IF hits = {} THEN "" ELSE ExceptOrder[CHOOSE i \in hits : \A j \in hits : i <= j]

\* What the except clauses make of the try block's outcome
ExceptClauses(self, url, outcome) ==
    IF outcome.kind # "raise" THEN outcome
    ELSE LET e == outcome.exc
             clause == MatchingClause(e)
         IN
         CASE clause = "Timeout" ->
                Raise(WiilNetworkError(JStr("Request timeout"),
                          JObj([url |-> JStr(url), timeout |-> JNum(self.timeout)])))
           [] clause = "ConnectionError" ->
                Raise(WiilNetworkError(JStr("Connection error occurred"),
                          JObj([url |-> JStr(url), error |-> JStr(e.message)])))
           [] clause = "HTTPError" ->
                LET handled == HandleHttpError(e.response) IN
                IF handled.kind = "return" THEN Raise(handled.value) ELSE handled
           [] clause = "RequestException" ->
                Raise(WiilNetworkError(JStr("Network error occurred: " \o e.message),
                          JObj([url |-> JStr(url), error |-> JStr(e.message)])))
           [] clause = "json.JSONDecodeError" ->
                Raise(WiilAPIError(JStr("Invalid JSON response from API"), JNull, JNull,
                          JObj([error |-> JStr(e.message)])))
           [] OTHER -> outcome

\* schema given: `if schema:` (a class is truthy, None is not)
NoSchema == "None"

\* Variant: pydantic's ValidationError is let through as it is
PropagateValidationError(e) == Raise(e)

\* except ValidationError as e: raise WiilValidationError(..., details=e.errors())
OnValidationError(e) ==
    Raise(WiilValidationError(JStr("Request validation failed"), e.errors))

\* The validation post, put and patch start with: the data to send, or
\* WiilValidationError.  Only a dict is validated; a model instance is
\* dumped, anything else is left as it is.
ValidateRequest(data, schema) ==
    IF schema = NoSchema THEN Return(data)
    ELSE IF IsDict(data)
         THEN LET validated_data == Construct(schema, data.v) IN
              IF validated_data.kind = "raise"
              THEN OnValidationError(validated_data.exc)
              ELSE Return(ModelDump(validated_data.value, FALSE))
         ELSE IF IsModel(data) THEN Return(ModelDump(data, FALSE))
         ELSE Return(data)

\* A finished call: the requests it issued and what it gave its caller.
Done(requests, outcome) == [wire |-> requests, outcome |-> outcome]

\* HttpClient.get
HttpGet(self, path, kwargs, reply) ==
    LET url == Url(self, path) IN
    Done(SessionRequest(self, "GET", url, NoBody, TimeoutOf(self, kwargs)),
         ExceptClauses(self, url, ParseResponse(reply)))

\* HttpClient.post
HttpPost(self, path, data, schema, kwargs, reply) ==
    LET checked == ValidateRequest(data, schema)
        url == Url(self, path)
    IN IF checked.kind = "raise" THEN Done(<<>>, checked)
       ELSE Done(SessionRequest(self, "POST", url, checked.value, TimeoutOf(self, kwargs)),
                 ExceptClauses(self, url, ParseResponse(reply)))

\* HttpClient.put
HttpPut(self, path, data, schema, kwargs, reply) ==
    LET checked == ValidateRequest(data, schema)
        url == Url(self, path)
    IN IF checked.kind = "raise" THEN Done(<<>>, checked)
       ELSE Done(SessionRequest(self, "PUT", url, checked.value, TimeoutOf(self, kwargs)),
                 ExceptClauses(self, url, ParseResponse(reply)))

\* HttpClient.patch
HttpPatch(self, path, data, schema, kwargs, reply) ==
    LET checked == ValidateRequest(data, schema)
        url == Url(self, path)
    IN IF checked.kind = "raise" THEN Done(<<>>, checked)
       ELSE Done(SessionRequest(self, "PATCH", url, checked.value, TimeoutOf(self, kwargs)),
                 ExceptClauses(self, url, ParseResponse(reply)))

\* HttpClient.delete
HttpDelete(self, path, kwargs, reply) ==
    LET url == Url(self, path) IN
    Done(SessionRequest(self, "DELETE", url, NoBody, TimeoutOf(self, kwargs)),
         ExceptClauses(self, url, ParseDeleteResponse(reply)))

---------------------------------------------------------------------------
(* Resource wrappers: wiil/resources *)

\* No extra keyword arguments
NoKwargs == <<>>

\* ProjectsResource.create(**kwargs)
ProjectsCreate(self, kwargs, reply) ==
    LET data == Construct("CreateProject", kwargs) IN
    IF data.kind = "raise" THEN Done(<<>>, data)
    ELSE HttpPost(self, "/projects", ModelDump(data.value, TRUE), "CreateProject", NoKwargs, reply)

\* ProjectsResource.update(**kwargs)
ProjectsUpdate(self, kwargs, reply) ==
    LET data == Construct("UpdateProject", kwargs) IN
    IF data.kind = "raise" THEN Done(<<>>, data)
    ELSE HttpPatch(self, "/projects", ModelDump(data.value, TRUE), "UpdateProject", NoKwargs, reply)

\* CustomersResource.create(**kwargs)
CustomersCreate(self, kwargs, reply) ==
    LET data == Construct("CreateCustomer", kwargs) IN
    IF data.kind = "raise" THEN Done(<<>>, data)
    ELSE HttpPost(self, "/customers", ModelDump(data.value, TRUE), "CreateCustomer", NoKwargs, reply)

\* CustomersResource.update(customer_id, **kwargs)
CustomersUpdate(self, customer_id, kwargs, reply) ==
    LET data == Construct("UpdateCustomer", kwargs) IN
    IF data.kind = "raise" THEN Done(<<>>, data)
    ELSE HttpPatch(self, "/customers/" \o customer_id, ModelDump(data.value, TRUE),
                   "UpdateCustomer", NoKwargs, reply)

\* Binding of a call's keyword arguments to the parameters of a method:
\* TypeError for a keyword that is no parameter, else the parameters' values
\* (None where the parameter's default is None and nothing was passed)
BindArguments(parameters, kwargs) ==
    IF DOMAIN kwargs \subseteq parameters
    THEN Return([name \in parameters |->
                    IF name \in DOMAIN kwargs THEN kwargs[name] ELSE JNull])
    ELSE Raise(LibError("TypeError", "got an unexpected keyword argument"))

\* The value of a name in a method body: a local variable, else NameError
\* (none of the names looked up this way is a module global or a builtin)
NameLookup(name, locals) ==
    IF name \in DOMAIN locals THEN Return(locals[name])
    ELSE Raise(LibError("NameError", "name '" \o name \o "' is not defined"))

\* ReservationsResource.cancel(reservation_id, reason=None)
ReservationsCancel(self, reservation_id, reason, reply) ==
    LET data == IF reason # JNull THEN JObj([reason |-> reason]) ELSE EmptyDict IN
    HttpPost(self, "/reservations/" \o reservation_id \o "/cancel", data, NoSchema,
             NoKwargs, reply)

\* Characters urllib.parse.quote never encodes: letters, digits and "_.-~"
Letters ==
    {"a", "b", "c", "d", "e", "f", "g", "h", "i", "j", "k", "l", "m",
     "n", "o", "p", "q", "r", "s", "t", "u", "v", "w", "x", "y", "z",
     "A", "B", "C", "D", "E", "F", "G", "H", "I", "J", "K", "L", "M",
     "N", "O", "P", "Q", "R", "S", "T", "U", "V", "W", "X", "Y", "Z"}
Digits == {"0", "1", "2", "3", "4", "5", "6", "7", "8", "9"}
AlwaysSafe == Letters \cup Digits \cup {"_", ".", "-", "~"}

\* "%XX" for the byte of an ASCII character (the characters of the model)
PercentEncoded(c) ==
    CASE c = " " -> "%20"
      [] c = "#" -> "%23"
      [] c = "%" -> "%25"
      [] c = "&" -> "%26"
      [] c = "+" -> "%2B"
      [] c = "/" -> "%2F"
      [] c = ":" -> "%3A"
      [] c = "=" -> "%3D"
      [] c = "?" -> "%3F"
      [] c = "@" -> "%40"

\* urllib.parse.quote(string, safe): the pieces of the quoted string
Quote(chars, safe) ==
    [i \in DOMAIN chars |->
        IF chars[i] \in AlwaysSafe \cup safe THEN chars[i] ELSE PercentEncoded(chars[i])]

\* urllib.parse.quote_plus(string): a space becomes "+", which is itself encoded
QuotePlus(chars) ==
    LET quoted == Quote(chars, {" "}) IN
    [i \in DOMAIN quoted |-> IF quoted[i] = " " THEN "+" ELSE quoted[i]]

\* str(v) of a query parameter, quoted as urlencode quotes it
QuotedValue(v) == IF v.k = "num" THEN ToString(v.v) ELSE Joined(QuotePlus(v.v))

\* urllib.parse.urlencode(params): key=value pairs in insertion order, joined by "&"
RECURSIVE Urlencode(_)
Urlencode(params) ==
    IF params = <<>> THEN ""
    ELSE LET pair == Head(params)[1] \o "=" \o QuotedValue(Head(params)[2]) IN
         IF Len(params) = 1 THEN pair ELSE pair \o "&" \o Urlencode(Tail(params))

\* Variant: `if page:` in place of `if page is not None:`
IsTruthy(x) == x # JNull /\ (x.k = "num" => x.v # 0) /\ (x.k = "chars" => x.v # <<>>)

\* `x is not None`
IsNotNone(x) == x # JNull

\* The params dict a list method builds: the given arguments under their
\* wire names, in the order of the if statements
Params(pairs) == SelectSeq(pairs, LAMBDA pair : IsNotNone(pair[2]))

\* query_string = f'?{urlencode(params)}' if params else ''
QueryString(params) == IF params # <<>> THEN "?" \o Urlencode(params) ELSE ""

\* MenusResource.get_popular_items(pageSize=None): the parameter is pageSize,
\* the body reads the name limit
MenusGetPopularItems(self, kwargs, reply) ==
    LET bound == BindArguments({"pageSize"}, kwargs) IN
    IF bound.kind = "raise" THEN Done(<<>>, bound)
    ELSE LET limit == NameLookup("limit", bound.value) IN
         IF limit.kind = "raise" THEN Done(<<>>, limit)
         ELSE HttpGet(self,
                      "/menu-management/items/popular"
                         \o QueryString(Params(<< <<"limit", limit.value>> >>)),
                      NoKwargs, reply)

\* ProjectsResource.list(page, page_size, sort_by, sort_direction)
ProjectsList(self, page, page_size, sort_by, sort_direction, reply) ==
    LET params == Params(<< <<"page", page>>, <<"pageSize", page_size>>,
                            <<"sortBy", sort_by>>, <<"sortDirection", sort_direction>> >>)
    IN HttpGet(self, "/projects" \o QueryString(params), NoKwargs, reply)

\* CustomersResource.list(page, page_size)
CustomersList(self, page, page_size, reply) ==
    LET params == Params(<< <<"page", page>>, <<"pageSize", page_size>> >>)
    IN HttpGet(self, "/customers" \o QueryString(params), NoKwargs, reply)

\* Variant: quote's default safe="/"
QuoteSafeDefault == {"/"}

\* safe="" in get_by_phone and get_by_email
QuoteSafe == {}

\* CustomersResource.get_by_phone(phone_number)
CustomersGetByPhone(self, phone_number, reply) ==
    HttpGet(self, "/customers/phone/" \o Joined(Quote(phone_number, QuoteSafe)), NoKwargs, reply)

\* CustomersResource.get_by_email(email)
CustomersGetByEmail(self, email, reply) ==
    HttpGet(self, "/customers/email/" \o Joined(Quote(email, QuoteSafe)), NoKwargs, reply)

\* PhoneConfigurationsResource.get_by_phone_number(phone_number): the number
\* is put into the path as it is
PhoneConfigsGetByPhoneNumber(self, phone_number, reply) ==
    HttpGet(self, "/phone-configurations/by-phone-number/" \o Joined(phone_number),
            NoKwargs, reply)

\* DeploymentChannelsResource.get_by_identifier(identifier, channel_type):
\* both are put into the path as they are
DeploymentChannelsGetByIdentifier(self, identifier, channel_type, reply) ==
    HttpGet(self, "/deployment-channels/by-identifier/" \o Joined(identifier)
                     \o "?type=" \o channel_type,
            NoKwargs, reply)

\* OrganizationsResource.get()
OrganizationsGet(self, reply) == HttpGet(self, "/organizations", NoKwargs, reply)

\* ProjectsResource.get(project_id)
ProjectsGet(self, project_id, reply) ==
    HttpGet(self, "/projects/" \o project_id, NoKwargs, reply)

\* ProjectsResource.delete(project_id)
ProjectsDelete(self, project_id, reply) ==
    HttpDelete(self, "/projects/" \o project_id, NoKwargs, reply)

---------------------------------------------------------------------------
(* WiilClient: wiil/client/wiil_client.py *)

\* A Python str given as its pieces (single characters where the code looks
\* inside the string)
Str(pieces) == [k |-> "chars", v |-> pieces]

\* str(x) of a constructor argument
StrOf(x) == IF x.k = "chars" THEN Joined(x.v) ELSE "None"

\* WiilConfigurationError(message)
WiilConfigurationError(message) ==
    [cls |-> "WiilConfigurationError", message |-> message, details |-> JNull]

\* Characters str.strip() removes
Whitespace == {" ", "\t", "\n", "\r"}

\* str.strip() on a string given as its pieces
RECURSIVE Strip(_)
Strip(pieces) ==
    IF pieces = <<>> THEN pieces
    ELSE IF Head(pieces) \in Whitespace THEN Strip(Tail(pieces))
    ELSE IF pieces[Len(pieces)] \in Whitespace THEN Strip(SubSeq(pieces, 1, Len(pieces) - 1))
    ELSE pieces

\* Characters urllib.parse accepts in a scheme; a scheme starts with a letter
SchemeChars == Letters \cup Digits \cup {"+", "-", "."}

\* The index of the first character of chars that is in set, 0 when none is
FirstIndex(chars, set) ==
    LET hits == {i \in DOMAIN chars : chars[i] \in set} IN
    IF hits = {} THEN 0 ELSE CHOOSE i \in hits : \A j \in hits : i <= j

\* urllib.parse.urlparse(url): the scheme and the netloc of a URL given as
\* its characters (the model's URLs are lower case, hold no brackets and no
\* control characters).  urlparse(None) gives empty components.
UrlParse(url) ==
    IF url.k # "chars" THEN [scheme |-> <<>>, netloc |-> <<>>]
    ELSE LET chars == url.v
             colon == FirstIndex(chars, {":"})
             hasScheme == /\ colon > 1
                          /\ chars[1] \in Letters
                          /\ \A j \in 1..(colon - 1) : chars[j] \in SchemeChars
             scheme == IF hasScheme THEN SubSeq(chars, 1, colon - 1) ELSE <<>>
             rest == IF hasScheme THEN SubSeq(chars, colon + 1, Len(chars)) ELSE chars
             hasNetloc == Len(rest) >= 2 /\ rest[1] = "/" /\ rest[2] = "/"
             after == IF hasNetloc THEN SubSeq(rest, 3, Len(rest)) ELSE <<>>
             stop == FirstIndex(after, {"/", "?", "#"})
             netloc == IF stop = 0 THEN after ELSE SubSeq(after, 1, stop - 1)
         IN [scheme |-> scheme, netloc |-> netloc]

\* The checks of _validate_config; "" when the check passes, else the
\* message of the WiilConfigurationError it raises.
ConfigCheck(check, api_key, base_url, timeout) ==
    CASE check = "api_key" ->
            IF api_key.k # "chars" \/ api_key.v = <<>>
            THEN "API key is required. Please provide a valid API key in the configuration."
            ELSE IF Strip(api_key.v) = <<>>
            THEN "API key cannot be empty. Please provide a valid API key."
            ELSE ""
      [] check = "base_url" ->
            LET parsed == UrlParse(base_url) IN
            IF parsed.scheme = <<>> \/ parsed.netloc = <<>>
            THEN "Invalid base URL: " \o StrOf(base_url) \o ". Please provide a valid URL."
            ELSE ""
      [] check = "timeout" ->
            IF timeout <= 0
            THEN "Timeout must be a positive number in seconds."
            ELSE ""

\* Variant: the timeout is checked first
ConfigChecksTimeoutFirst == <<"timeout", "api_key", "base_url">>

\* The order in which _validate_config runs its checks
ConfigChecks == <<"api_key", "base_url", "timeout">>

\* WiilClient._validate_config: the first failing check raises
ValidateConfig(api_key, base_url, timeout) ==
    LET failing == {i \in DOMAIN ConfigChecks :
                       ConfigCheck(ConfigChecks[i], api_key, base_url, timeout) # ""}
    IN IF failing = {} THEN Return(JNull)
       ELSE LET first == CHOOSE i \in failing : \A j \in failing : i <= j IN
            Raise(WiilConfigurationError(
                      JStr(ConfigCheck(ConfigChecks[first], api_key, base_url, timeout))))

\* WiilClientConfig(api_key=..., base_url=..., timeout=...)
WiilClientConfig(api_key, base_url, timeout) ==
    [api_key |-> StrOf(api_key), base_url |-> base_url.v, timeout |-> timeout]

\* The resource wrappers WiilClient.__init__ creates, by attribute name
ResourceAttributes ==
    {"organizations", "projects", "customers", "menus", "menu_orders", "products",
     "product_orders", "reservations", "reservation_resources", "service_appointments",
     "business_services", "agent_configs", "deployment_configs", "deployment_channels",
     "instruction_configs", "phone_configs", "provisioning_configs",
     "conversation_configs", "translation_sessions", "knowledge_sources"}

\* No transport, and a WiilClient instance on which no attribute is set
NoHttp == [api_key |-> "", base_url |-> "", timeout |-> 0, headers |-> <<>>,
           cookies |-> {}, closed |-> FALSE, sessions |-> 0]
NoClient ==
    [config |-> [api_key |-> "", base_url |-> <<>>, timeout |-> 0], attrs |-> {},
     transports |-> 0, http_of |-> <<>>]

\* Variant: the wrappers are given a second transport, not the client's own
ConstructedOnSecondTransport(config) ==
    [config |-> config, attrs |-> {"_http"} \cup ResourceAttributes,
     transports |-> 2, http_of |-> [a \in ResourceAttributes |-> 2]]

\* A constructed client: its configuration, the attributes set, the number of
\* HttpClient objects created (the client's own _http is the first), and the
\* transport each wrapper's _http refers to
Constructed(config) ==
    [config |-> config, attrs |-> {"_http"} \cup ResourceAttributes,
     transports |-> 1, http_of |-> [a \in ResourceAttributes |-> 1]]

\* Variant: the transport and the wrappers are created before the
\* configuration is validated
WiilClientNewValidatingLast(api_key, base_url, timeout) ==
    LET checked == ValidateConfig(api_key, base_url, timeout)
        config == [api_key |-> StrOf(api_key),
                   base_url |-> IF base_url.k = "chars" THEN base_url.v ELSE <<>>,
                   timeout |-> timeout]
    IN [outcome |-> checked, http |-> HttpClientInit(config), client |-> Constructed(config)]

\* WiilClient.__init__: validation first; then the configuration, the
\* transport and the resource wrappers sharing it
WiilClientNew(api_key, base_url, timeout) ==
    LET checked == ValidateConfig(api_key, base_url, timeout) IN
    IF checked.kind = "raise"
    THEN [outcome |-> checked, http |-> NoHttp, client |-> NoClient]
    ELSE LET config == WiilClientConfig(api_key, base_url, timeout) IN
         [outcome |-> Return(JNull), http |-> HttpClientInit(config),
          client |-> Constructed(config)]

---------------------------------------------------------------------------
(* The inputs explored *)

\* WiilClientConfig defaults
DefaultTimeout == 30
DefaultBaseUrl == "https://api.wiil.io/v1"

\* The characters of DefaultBaseUrl
DefaultBaseUrlChars ==
    <<"h", "t", "t", "p", "s", ":", "/", "/", "a", "p", "i", ".", "w", "i", "i", "l",
      ".", "i", "o", "/", "v", "1">>

\* The configuration of the clients whose calls are explored: the test key
\* and the defaults (other configurations are explored from the constructor on)
Configs ==
    {[api_key |-> "test-api-key", base_url |-> DefaultBaseUrlChars, timeout |-> DefaultTimeout]}

\* A per-call timeout given as a keyword argument
TimeoutKwargs == [timeout |-> 5]

\* The entries of a response body: success, data and error
SuccessValues == {JBool(TRUE), JBool(FALSE), JNull}
DataValues == {JNull, JObj([id |-> JStr("proj_123")])}
FullError ==
    JObj([message |-> JStr("Organization not found"), code |-> JStr("NOT_FOUND"),
          details |-> JObj([field |-> JStr("id")])])
ErrorValues ==
    {FullError,
     JObj([message |-> JStr("Organization not found"), code |-> JStr("NOT_FOUND")]),
     JObj([code |-> JStr("NOT_FOUND"), details |-> JNull]),
     JObj([message |-> JStr("Organization not found")]),
     EmptyDict,
     JStr("Not found"),
     JNull}

\* Bodies with a subset of the keys success and data
SuccessBodies ==
    {JObj(<<>>)} \cup
    {JObj([success |-> s]) : s \in SuccessValues} \cup
    {JObj([data |-> d]) : d \in DataValues} \cup
    {JObj([data |-> d, success |-> s]) : s \in SuccessValues, d \in DataValues}

\* Bodies with the key error, with and without success
ErrorBodies ==
    {JObj([error |-> e]) : e \in ErrorValues} \cup
    {JObj([error |-> e, success |-> s]) : s \in {JBool(FALSE), JNull}, e \in ErrorValues} \cup
    {JObj([error |-> FullError, success |-> JBool(TRUE)])}

\* JSON that is no object
OtherJson == {JNull, JStr("ok"), JList(<<JObj([data |-> JNull])>>)}

\* Text that is not JSON
NonJson == {RawText(""), RawText("<html>Bad Gateway</html>")}

SuccessStatuses == {200, 201}
ErrorStatuses == {404, 500}
Statuses == SuccessStatuses \cup ErrorStatuses

FailReplies ==
    {FailReply("ConnectTimeout", "connect timed out"),
     FailReply("ReadTimeout", "read timed out"),
     FailReply("ConnectionError", "connection refused"),
     FailReply("TooManyRedirects", "exceeded 30 redirects")}

\* What a request can meet: an HTTP response or a failure inside requests.
\* Successful statuses meet every success body and error statuses every
\* error body; both meet the bodies with neither key, JSON that is no
\* object, text that is not JSON, and one standard envelope of the other kind.
Replies ==
    {HttpReply(s, t) : s \in SuccessStatuses,
                       t \in {JsonText(v) : v \in SuccessBodies \cup OtherJson \cup
                                                  {JObj([error |-> FullError, success |-> JBool(FALSE)])}}
                             \cup NonJson} \cup
    {HttpReply(s, t) : s \in ErrorStatuses,
                       t \in {JsonText(v) : v \in ErrorBodies \cup OtherJson \cup
                                 {JObj(<<>>), JObj([success |-> JBool(FALSE)]),
                                  JObj([data |-> JNull, success |-> JBool(TRUE)])}}
                             \cup NonJson} \cup
    FailReplies

\* The replies met by the calls that vary their arguments
BasicReplies ==
    {HttpReply(200, JsonText(JObj([data |-> JObj([id |-> JStr("proj_123")]), success |-> JBool(TRUE)]))),
     HttpReply(404, JsonText(JObj([error |-> FullError, success |-> JBool(FALSE)]))),
     FailReply("ReadTimeout", "read timed out")}

\* Arguments of get and delete: a path and keyword arguments
PlainArgs == [path |-> "/organizations", kwargs |-> NoKwargs]
ReadArgs ==
    {PlainArgs,
     [path |-> "/projects/proj_123", kwargs |-> NoKwargs],
     [path |-> "/organizations", kwargs |-> TimeoutKwargs]}

\* Arguments of post, put and patch: a path, a payload, a schema and
\* keyword arguments
Payload(data, schema, kwargs) ==
    [schema |-> schema, path |-> "/projects", kwargs |-> kwargs, data |-> data]

ValidDict == JObj([name |-> JStr("Production"), id |-> JStr("proj_123"), regionId |-> JStr("us-west-2")])
InvalidDict == JObj([name |-> JStr("X")])

PlainPayload == Payload(ValidDict, NoSchema, NoKwargs)
WriteArgs ==
    {PlainPayload,
     Payload(ValidDict, "CreateProject", NoKwargs),
     Payload(InvalidDict, "CreateProject", NoKwargs),
     Payload(InvalidDict, NoSchema, NoKwargs),
     Payload(JObj([id |-> JNull]), "UpdateProject", TimeoutKwargs),
     Payload(Instance("CreateProject", ValidDict.v), "CreateProject", NoKwargs),
     Payload(JList(<<JStr("SOC2")>>), "CreateProject", TimeoutKwargs),
     Payload(JNull, NoSchema, NoKwargs)}

\* Every reply is explored for the plain arguments; the other arguments
\* meet the basic replies.
RepliesFor(args) ==
    IF args \in {PlainArgs, PlainPayload} THEN Replies ELSE BasicReplies

\* Keyword arguments given to the wrappers' create and update
ProjectKwargs ==
    {kw.v : kw \in {d \in PartialDicts({"id", "name", "region_id"},
                           {JStr("proj_123"), JStr("Production"), JStr("X"), JNull, JStr("us-west-2")}) :
                     /\ "id" \in DOMAIN d.v => d.v["id"] = JStr("proj_123")
                     /\ "name" \in DOMAIN d.v => d.v["name"] \in {JStr("Production"), JStr("X"), JNull}
                     /\ "region_id" \in DOMAIN d.v => d.v["region_id"] = JStr("us-west-2")}}

CustomerKwargs ==
    {kw.v : kw \in {d \in PartialDicts({"id", "email", "firstname"},
                           {JStr("cust_123"), JStr("jane.smith@example.com"), JStr("not-an-email"),
                            JStr("Jane")}) :
                     /\ "id" \in DOMAIN d.v => d.v["id"] = JStr("cust_123")
                     /\ "email" \in DOMAIN d.v =>
                            d.v["email"] \in {JStr("jane.smith@example.com"), JStr("not-an-email")}
                     /\ "firstname" \in DOMAIN d.v => d.v["firstname"] = JStr("Jane")}}

CustomerIds == {"cust_123"}

\* Pagination arguments of the list methods
Pages == {JNull, JNum(0), JNum(2)}
PageSizes == {JNull, JNum(50)}
SortBys == {JNull, Str(<<"c", "r", "e", "a", "t", "e", "d", " ", "a", "t">>)}
SortDirections == {JNull, Str(<<"d", "e", "s", "c">>)}

\* Phone numbers and e-mail addresses looked up, as their characters
PhoneNumbers ==
    {<<"+", "1", "2", "3", "4", "5", "6", "7", "8", "9", "0">>,
     <<"5", "5", "5", "-", "0", "1">>,
     <<"+", "1", " ", "5", "5", "/", "7", "#", "2">>}
Emails ==
    {<<"j", "o", "h", "n", "@", "e", "x", ".", "i", "o">>,
     <<"a", "+", "b", "_", "c", "~", "d", "@", "x", ".", "i", "o">>,
     <<"a", "/", "b", "%", "4", "0", "?", "=", "&", ":", "@", "x">>}

ProjectIds == {"proj_123"}

\* Entities as the server sends them (camelCase wire names)
OrganizationData ==
    JObj([id |-> JStr("org_123"), companyName |-> JStr("Acme Corporation"),
          businessVerticalId |-> JStr("bv_456")])
ProjectData(id, name, isDefault) ==
    JObj([name |-> JStr(name), id |-> JStr(id), isDefault |-> JBool(isDefault)])
MetaData(page, pageSize, totalCount, hasNextPage, hasPreviousPage) ==
    JObj([page |-> JNum(page), pageSize |-> JNum(pageSize), totalCount |-> JNum(totalCount),
          hasNextPage |-> JBool(hasNextPage), hasPreviousPage |-> JBool(hasPreviousPage),
          totalPages |-> JNum(2)])

\* A 2xx answer with the APIResponse envelope around data
Enveloped(status, data) ==
    HttpReply(status, JsonText(JObj([data |-> data, success |-> JBool(TRUE)])))

\* Answers to a delete: 204 No Content, and the envelope around true
DeleteReplies == {HttpReply(204, RawText("")), Enveloped(200, JBool(TRUE))}

\* An HTTP answer that also carries a Set-Cookie header
SetsCookie(reply, cookie) ==
    [k |-> reply.k, text |-> reply.text, status |-> reply.status, set_cookie |-> cookie]

\* Answers to a single-entity request and to a list request
EntityReplies ==
    {Enveloped(200, OrganizationData),
     SetsCookie(Enveloped(200, OrganizationData), "sid=abc"),
     Enveloped(200, ProjectData("proj_123", "Production", FALSE))} \cup BasicReplies
ListReplies ==
    {Enveloped(200, JObj([data |-> JList(<<ProjectData("proj_1", "Project 1", TRUE),
                                          ProjectData("proj_2", "Project 2", FALSE)>>),
                          meta |-> MetaData(1, 20, 2, FALSE, FALSE)])),
     Enveloped(200, JObj([data |-> JList(<<>>),
                          meta |-> MetaData(2, 50, 100, TRUE, TRUE)])),
     Enveloped(200, JObj([data |-> JList(<<>>),
                          meta |-> MetaData(0, 5000, 2, FALSE, FALSE)])),
     HttpReply(404, JsonText(JObj([error |-> FullError, success |-> JBool(FALSE)]))),
     FailReply("ReadTimeout", "read timed out")}

\* Answers to create and update: the basic ones, and the server sending the
\* entity back with the fields the call gave, under the names it gave them
WriteReplies(kwargs) == BasicReplies \cup {Enveloped(201, JObj(kwargs))}

\* The answers explored for a create or update: arguments the schema rejects
\* are explored with one answer only
RepliesToWrite(schema, kwargs) ==
    IF FieldErrors(FieldsOf(schema), kwargs) = <<>> THEN WriteReplies(kwargs)
    ELSE {Enveloped(200, JObj([id |-> JStr("proj_123")]))}

\* Constructor arguments: API keys (None, empty, blank, two usable keys),
\* base URLs (None, empty, without scheme, without netloc, usable ones) and
\* timeouts around zero
ApiKeys ==
    {JNull, Str(<<>>), Str(<<" ", "\t">>), Str(<<"test-api-key">>), Str(<<"other-key">>)}
BaseUrls ==
    {JNull, Str(<<>>),
     Str(DefaultBaseUrlChars),
     Str(DefaultBaseUrlChars \o <<"/">>),
     Str(<<"h", "t", "t", "p", ":", "/", "/", "a">>),
     Str(<<"a", ".", "i", "o", "/", "v", "1">>),
     Str(<<"h", "t", "t", "p", ":", "/", "/">>),
     Str(<<"/", "/", "a">>),
     Str(<<"h", "t", "t", "p", ":", "/", "a">>)}
Timeouts == {-1, 0, DefaultTimeout}

---------------------------------------------------------------------------
(* The state machine *)

NoCall == [op |-> "none"]

\* The threads calling the one client, none of them in a call
Threads == {1, 2}
Idle == [pc |-> "idle"]
NoThreads == [t \in Threads |-> Idle]
NoResult == [kind |-> "none"]

\* A client constructed from one of the configurations, before any call
Init ==
    /\ \E config \in Configs :
          /\ http = HttpClientInit(config)
          /\ client = Constructed(config)
    /\ calls = 0
    /\ last = NoCall
    /\ wire = <<>>
    /\ result = NoResult
    /\ threads = NoThreads

\* A call on the client finishes: its requests and its outcome are recorded.
Finish(call, done) ==
    /\ "_http" \in client.attrs
    /\ calls < MaxCalls
    /\ calls' = calls + 1
    /\ last' = call
    /\ \E finished \in {done} :
          /\ wire' = finished.wire
          /\ result' = finished.outcome
          /\ http' = SessionAfter(http, finished.wire, call.reply)
    /\ UNCHANGED <<client, threads>>

Call(op, path, data, schema, kwargs, reply) ==
    [op |-> op, path |-> path, data |-> data, schema |-> schema, kwargs |-> kwargs,
     reply |-> reply]

Get ==
    \E a \in ReadArgs : \E reply \in RepliesFor(a) :
        Finish(Call("get", a.path, NoBody, NoSchema, a.kwargs, reply),
               HttpGet(http, a.path, a.kwargs, reply))

Post ==
    \E a \in WriteArgs : \E reply \in RepliesFor(a) :
        Finish(Call("post", a.path, a.data, a.schema, a.kwargs, reply),
               HttpPost(http, a.path, a.data, a.schema, a.kwargs, reply))

Put ==
    \E a \in WriteArgs : \E reply \in RepliesFor(a) :
        Finish(Call("put", a.path, a.data, a.schema, a.kwargs, reply),
               HttpPut(http, a.path, a.data, a.schema, a.kwargs, reply))

Patch ==
    \E a \in WriteArgs : \E reply \in RepliesFor(a) :
        Finish(Call("patch", a.path, a.data, a.schema, a.kwargs, reply),
               HttpPatch(http, a.path, a.data, a.schema, a.kwargs, reply))

Delete ==
    \E a \in ReadArgs : \E reply \in RepliesFor(a) \cup DeleteReplies :
        Finish(Call("delete", a.path, NoBody, NoSchema, a.kwargs, reply),
               HttpDelete(http, a.path, a.kwargs, reply))

\* A call of a resource wrapper's create or update
WrapperCall(op, schema, kwargs, reply) ==
    [op |-> op, schema |-> schema, kwargs |-> kwargs, reply |-> reply]

ProjectsCreateCall ==
    \E kwargs \in ProjectKwargs : \E reply \in RepliesToWrite("CreateProject", kwargs) :
        Finish(WrapperCall("projects.create", "CreateProject", kwargs, reply),
               ProjectsCreate(http, kwargs, reply))

ProjectsUpdateCall ==
    \E kwargs \in ProjectKwargs : \E reply \in RepliesToWrite("UpdateProject", kwargs) :
        Finish(WrapperCall("projects.update", "UpdateProject", kwargs, reply),
               ProjectsUpdate(http, kwargs, reply))

CustomersCreateCall ==
    \E kwargs \in CustomerKwargs : \E reply \in RepliesToWrite("CreateCustomer", kwargs) :
        Finish(WrapperCall("customers.create", "CreateCustomer", kwargs, reply),
               CustomersCreate(http, kwargs, reply))

CustomersUpdateCall ==
    \E customer_id \in CustomerIds, kwargs \in CustomerKwargs : \E reply \in RepliesToWrite("UpdateCustomer", kwargs) :
        Finish([op |-> "customers.update", schema |-> "UpdateCustomer", kwargs |-> kwargs,
                reply |-> reply, customer_id |-> customer_id],
               CustomersUpdate(http, customer_id, kwargs, reply))

\* A call of a wrapper's read method: its arguments and the reply it met
ReadCall(op, args, reply) == [op |-> op, args |-> args, reply |-> reply]

OrganizationsGetCall ==
    \E reply \in EntityReplies :
        Finish(ReadCall("organizations.get", <<>>, reply), OrganizationsGet(http, reply))

ProjectsGetCall ==
    \E project_id \in ProjectIds, reply \in EntityReplies :
        Finish(ReadCall("projects.get", [project_id |-> project_id], reply),
               ProjectsGet(http, project_id, reply))

ProjectsDeleteCall ==
    \E project_id \in ProjectIds, reply \in BasicReplies :
        Finish(ReadCall("projects.delete", [project_id |-> project_id], reply),
               ProjectsDelete(http, project_id, reply))

ProjectsListCall ==
    \E page \in Pages, page_size \in PageSizes, sort_by \in SortBys,
       sort_direction \in SortDirections, reply \in ListReplies :
        Finish(ReadCall("projects.list",
                        [page |-> page, page_size |-> page_size, sort_by |-> sort_by,
                         sort_direction |-> sort_direction], reply),
               ProjectsList(http, page, page_size, sort_by, sort_direction, reply))

CustomersListCall ==
    \E page \in Pages, page_size \in PageSizes, reply \in ListReplies :
        Finish(ReadCall("customers.list", [page |-> page, page_size |-> page_size], reply),
               CustomersList(http, page, page_size, reply))

CustomersGetByPhoneCall ==
    \E phone_number \in PhoneNumbers, reply \in BasicReplies :
        Finish(ReadCall("customers.get_by_phone", [value |-> phone_number], reply),
               CustomersGetByPhone(http, phone_number, reply))

CustomersGetByEmailCall ==
    \E email \in Emails, reply \in BasicReplies :
        Finish(ReadCall("customers.get_by_email", [value |-> email], reply),
               CustomersGetByEmail(http, email, reply))

\* WiilClient(api_key, base_url, timeout) while no client exists: the
\* constructor either raises or leaves a client with its transport.
NewClient ==
    \E api_key \in ApiKeys, base_url \in BaseUrls, timeout \in Timeouts :
        LET made == WiilClientNew(api_key, base_url, timeout) IN
        /\ client = NoClient
        /\ last' = [op |-> "WiilClient", api_key |-> api_key, base_url |-> base_url,
                    timeout |-> timeout]
        /\ result' = made.outcome
        /\ http' = made.http
        /\ client' = made.client
        /\ wire' = <<>>
        /\ UNCHANGED <<calls, threads>>

\* The transport's five verbs
Next ==
    \/ Get
    \/ Post
    \/ Put
    \/ Patch
    \/ Delete

Spec == Init /\ [][Next]_vars

\* The resource wrappers' create and update methods
\* Reservation ids and cancellation reasons passed to reservations.cancel
ReservationIds == {"rsv_123"}

CancelReasons == {JNull, JStr("Customer request")}

\* Channel identifiers (a phone number, a URL, ...) and channel types
ChannelIdentifiers ==
    {<<"w", "e", "b", "-", "1">>,
     <<"a", "/", "b", "?", "x", "=", "1", "&", "y", "#", "z">>}

ChannelTypes == {"CALLS"}

PhoneConfigsGetByPhoneNumberCall ==
    \E phone_number \in PhoneNumbers, reply \in BasicReplies :
        Finish(ReadCall("phone_configs.get_by_phone_number", [value |-> phone_number], reply),
               PhoneConfigsGetByPhoneNumber(http, phone_number, reply))

DeploymentChannelsGetByIdentifierCall ==
    \E identifier \in ChannelIdentifiers, channel_type \in ChannelTypes,
       reply \in BasicReplies :
        Finish(ReadCall("deployment_channels.get_by_identifier",
                        [value |-> identifier, channel_type |-> channel_type], reply),
               DeploymentChannelsGetByIdentifier(http, identifier, channel_type, reply))

ReservationsCancelCall ==
    \E reservation_id \in ReservationIds, reason \in CancelReasons,
       reply \in BasicReplies :
        Finish(ReadCall("reservations.cancel",
                        [reservation_id |-> reservation_id, reason |-> reason], reply),
               ReservationsCancel(http, reservation_id, reason, reply))

\* Keyword arguments passed to menus.get_popular_items: none, the parameter of
\* the signature, and the keyword of the documented example
PopularItemsKwargs == {<<>>, [pageSize |-> JNum(5)], [limit |-> JNum(5)]}

MenusGetPopularItemsCall ==
    \E kwargs \in PopularItemsKwargs, reply \in BasicReplies :
        Finish(ReadCall("menus.get_popular_items", kwargs, reply),
               MenusGetPopularItems(http, kwargs, reply))

NextResources ==
    \/ ProjectsCreateCall
    \/ ProjectsUpdateCall
    \/ CustomersCreateCall
    \/ CustomersUpdateCall
    \/ OrganizationsGetCall
    \/ ProjectsGetCall
    \/ ProjectsDeleteCall
    \/ ProjectsListCall
    \/ CustomersListCall
    \/ CustomersGetByPhoneCall
    \/ CustomersGetByEmailCall
    \/ PhoneConfigsGetByPhoneNumberCall
    \/ DeploymentChannelsGetByIdentifierCall
    \/ ReservationsCancelCall
    \/ MenusGetPopularItemsCall

SpecResources == Init /\ [][NextResources]_vars

\* No client yet: nothing constructed, nothing called
InitClient ==
    /\ http = NoHttp
    /\ client = NoClient
    /\ calls = 0
    /\ last = NoCall
    /\ wire = <<>>
    /\ result = NoResult
    /\ threads = NoThreads

\* Construction of a client, then methods of its resource wrappers: one for
\* each verb the wrappers use, a list method and a lookup by path segment
NextClient ==
    \/ NewClient
    \/ OrganizationsGetCall
    \/ ProjectsCreateCall
    \/ ProjectsUpdateCall
    \/ ProjectsDeleteCall
    \/ ProjectsListCall
    \/ CustomersGetByPhoneCall

SpecClient == InitClient /\ [][NextClient]_vars

---------------------------------------------------------------------------
(* The lifetime of the transport *)

\* The client and its wrappers become unreachable: they hold the only
\* references to the transport, which is finalized with them. Nothing can be
\* called on the client from then on.
Teardown ==
    /\ "_http" \in client.attrs
    /\ client' = [client EXCEPT !.attrs = {}, !.http_of = <<>>]
    /\ http' = HttpClientDel(http)
    /\ UNCHANGED <<calls, last, wire, result, threads>>

\* Calls on a client, succeeding or failing, until it is torn down
NextLifetime ==
    \/ OrganizationsGetCall
    \/ ProjectsCreateCall
    \/ ProjectsDeleteCall
    \/ Teardown

SpecLifetime == Init /\ [][NextLifetime]_vars

---------------------------------------------------------------------------
(* Calls from two threads *)

\* The calls the threads make: get (a path and keyword arguments) and post
\* (a payload and a schema as well)
ThreadCalls ==
    {[path |-> "/organizations", kwargs |-> TimeoutKwargs],
     [path |-> "/projects/proj_123", kwargs |-> NoKwargs],
     Payload(ValidDict, "CreateProject", NoKwargs),
     Payload(InvalidDict, "CreateProject", NoKwargs)}

ThreadReplies ==
    BasicReplies \cup {SetsCookie(Enveloped(200, OrganizationData), "sid=abc")}

IsPost(call) == "data" \in DOMAIN call

\* get or post up to its session call: the validation, the URL and the
\* request handed to the session, built from the transport as it is now
Begin(self, call) ==
    LET checked == IF IsPost(call) THEN ValidateRequest(call.data, call.schema)
                   ELSE Return(NoBody)
        url == Url(self, call.path)
    IN IF checked.kind = "raise"
       THEN [pc |-> "done", call |-> call, sent |-> <<>>, reply |-> NoCall,
             result |-> checked]
       ELSE [pc |-> "sent", call |-> call, url |-> url,
             sent |-> SessionRequest(self, IF IsPost(call) THEN "POST" ELSE "GET", url,
                                     checked.value, TimeoutOf(self, call.kwargs))]

\* get or post from the response on, on the transport as it is then
End(self, started, reply) ==
    [pc |-> "done", call |-> started.call, sent |-> started.sent, reply |-> reply,
     result |-> ExceptClauses(self, started.url, ParseResponse(reply))]

\* A thread enters get or post and runs it up to the session call
ThreadSend(t) ==
    /\ threads[t].pc = "idle"
    /\ \E call \in ThreadCalls :
          threads' = [threads EXCEPT ![t] = Begin(http, call)]
    /\ UNCHANGED <<http, calls, last, wire, result, client>>

\* The response of a thread's request arrives and its call finishes
ThreadReceive(t) ==
    /\ threads[t].pc = "sent"
    /\ \E reply \in ThreadReplies :
          /\ threads' = [threads EXCEPT ![t] = End(http, threads[t], reply)]
          /\ http' = SessionAfter(http, threads[t].sent, reply)
    /\ UNCHANGED <<calls, last, wire, result, client>>

\* Two threads, each making one call on the shared client, in any interleaving
NextThreads == \E t \in Threads : ThreadSend(t) \/ ThreadReceive(t)

SpecThreads == Init /\ [][NextThreads]_vars

---------------------------------------------------------------------------
(* Properties *)

BodyVerbs == {"post", "put", "patch"}
Verbs == {"get", "delete"} \cup BodyVerbs
WrapperOps == {"projects.create", "projects.update", "customers.create", "customers.update"}

\* The call just made was a verb of the transport and put a request on the wire
Sent == last.op \in Verbs /\ wire # <<>>

\* The request met an HTTP response with a 2xx status
Answered2xx ==
    Sent /\ last.reply.k = "http" /\ last.reply.status >= 200 /\ last.reply.status <= 299

\* The request met an HTTP response with a 4xx or 5xx status
AnsweredError ==
    Sent /\ last.reply.k = "http" /\ last.reply.status >= 400 /\ last.reply.status <= 599

\* The response body is JSON
JsonAnswer == last.reply.text.k = "json"

\* The response body is the standard error envelope
\* {success: false, error: {code, message, details?}}
StandardErrorBody ==
    /\ JsonAnswer
    /\ LET body == last.reply.text.v IN
       /\ body.k = "obj"
       /\ "success" \in DOMAIN body.v /\ body.v["success"] = JBool(FALSE)
       /\ "error" \in DOMAIN body.v /\ body.v["error"].k = "obj"
       /\ {"code", "message"} \subseteq DOMAIN body.v["error"].v

\* The request failed inside the requests library with an exception of class cls
FailedWith(cls) == Sent /\ last.reply.k = "fail" /\ last.reply.exc.cls = cls

Raised(cls) == result.kind = "raise" /\ result.exc.cls = cls

\* C1: get, post, put and patch return the `data` entry of a 2xx JSON body
\* that is an object with that key (also when it is null), and the whole
\* parsed body otherwise.
C1_DataUnwrapped ==
    (Answered2xx /\ last.op # "delete" /\ JsonAnswer) =>
        LET body == last.reply.text.v IN
        /\ result.kind = "return"
        /\ result.value = IF body.k = "obj" /\ "data" \in DOMAIN body.v
                          THEN body.v["data"] ELSE body

C1_Witness ==
    /\ Answered2xx /\ last.op = "put" /\ JsonAnswer
    /\ last.reply.text.v = JObj([data |-> JNull, success |-> JBool(TRUE)])
    /\ result = Return(JNull)

\* C2: on every verb, a 4xx/5xx answer carrying the standard error envelope
\* raises WiilAPIError with the HTTP status, error.code, error.message and
\* error.details (None when the envelope has none).
C2_StandardErrorMapped ==
    (AnsweredError /\ StandardErrorBody) =>
        LET error == last.reply.text.v.v["error"].v IN
        /\ Raised("WiilAPIError")
        /\ result.exc.status_code = JNum(last.reply.status)
        /\ result.exc.code = error["code"]
        /\ result.exc.message = error["message"]
        /\ result.exc.details = IF "details" \in DOMAIN error THEN error["details"] ELSE JNull

C2_Witness ==
    /\ AnsweredError /\ StandardErrorBody /\ last.op = "delete"
    /\ last.reply.status = 404
    /\ Raised("WiilAPIError")
    /\ result.exc.code = JStr("NOT_FOUND")
    /\ result.exc.details = JObj([field |-> JStr("id")])

\* C3 (as claimed): a 4xx/5xx answer whose body is not JSON or is not the
\* standard envelope (no object, no success:false, error missing or no
\* object) raises WiilAPIError with 'Request failed with status <status>',
\* the status, code UNKNOWN_ERROR and the raw response text in details.
C3_NonStandardErrorGeneric ==
    (/\ AnsweredError
     /\ \/ ~JsonAnswer
        \/ last.reply.text.v.k # "obj"
        \/ "success" \notin DOMAIN last.reply.text.v.v
        \/ last.reply.text.v.v["success"] # JBool(FALSE)
        \/ "error" \notin DOMAIN last.reply.text.v.v
        \/ last.reply.text.v.v["error"].k # "obj")
    => /\ Raised("WiilAPIError")
       /\ result.exc.message = JStr("Request failed with status " \o ToString(last.reply.status))
       /\ result.exc.status_code = JNum(last.reply.status)
       /\ result.exc.code = JStr("UNKNOWN_ERROR")
       /\ result.exc.details = JObj([response_text |-> PyText(last.reply.text)])

\* The violations pydantic reports for the keyword arguments kw of a schema
Violations(schema, kw) == FieldErrors(FieldsOf(schema), kw)

C5_WrapperValidationError ==
    (/\ last.op \in WrapperOps
     /\ Violations(last.schema, last.kwargs) # <<>>)
    => /\ Raised("WiilValidationError")
       /\ result.exc.details = JList(Violations(last.schema, last.kwargs))
       /\ wire = <<>>

\* C6 (as claimed): on every verb, a 2xx answer with a non-empty body that
\* is not JSON raises WiilAPIError saying the response is not valid JSON.
C6_InvalidJsonIsApiError ==
    (Answered2xx /\ ~JsonAnswer /\ last.reply.text.v # "") =>
        /\ Raised("WiilAPIError")
        /\ result.exc.message = JStr("Invalid JSON response from API")

\* C7: a request that times out, while connecting or while reading, raises
\* WiilNetworkError 'Request timeout' whose details hold the full URL (base
\* URL followed by the path) and the client's timeout.
C7_TimeoutIsNetworkError ==
    (FailedWith("ConnectTimeout") \/ FailedWith("ReadTimeout")) =>
        /\ Raised("WiilNetworkError")
        /\ result.exc.message = JStr("Request timeout")
        /\ result.exc.details =
              JObj([url |-> JStr(DefaultBaseUrl \o last.path), timeout |-> JNum(http.timeout)])
        /\ wire[1].url = DefaultBaseUrl \o last.path

C7_Witness ==
    /\ FailedWith("ConnectTimeout") /\ last.op = "get"
    /\ Raised("WiilNetworkError")
    /\ result.exc.details.v["url"] = JStr("https://api.wiil.io/v1/organizations")
    /\ result.exc.details.v["timeout"] = JNum(30)

\* C8: a failed connection raises WiilNetworkError carrying the underlying
\* error's text, and every other failure inside the transport raises
\* WiilNetworkError too: none is reported as WiilAPIError, none escapes.
C8_TransportFailureIsNetworkError ==
    (Sent /\ last.reply.k = "fail") =>
        /\ Raised("WiilNetworkError")
        /\ FailedWith("ConnectionError") =>
              /\ result.exc.message = JStr("Connection error occurred")
              /\ result.exc.details.v["error"] = JStr(last.reply.exc.message)
        /\ FailedWith("TooManyRedirects") =>
              result.exc.details.v["error"] = JStr(last.reply.exc.message)

C8_Witness ==
    /\ FailedWith("TooManyRedirects") /\ last.op = "post"
    /\ Raised("WiilNetworkError")
    /\ result.exc.details.v["error"] = JStr("exceeded 30 redirects")

C10_OnlySdkErrors ==
    (last.op \in Verbs /\ result.kind = "raise") =>
        result.exc.cls \in {"WiilAPIError", "WiilNetworkError", "WiilValidationError"}

\* The call just made was the constructor WiilClient(api_key, base_url, timeout)
Constructing == last.op = "WiilClient"

\* An API key that is missing (None), empty or made of whitespace only
BlankKey(api_key) ==
    api_key = JNull \/ \A i \in DOMAIN api_key.v : api_key.v[i] \in {" ", "\t", "\n", "\r"}

\* A base URL of the form <scheme>://<netloc>..., the scheme starting with a
\* letter and the netloc not empty
SchemeAndHost(base_url) ==
    /\ base_url # JNull
    /\ LET chars == base_url.v IN
       \E i \in DOMAIN chars :
          /\ chars[i] = ":" /\ i > 1
          /\ chars[1] \in Letters
          /\ \A j \in 1..(i - 1) : chars[j] \in Letters \cup Digits \cup {"+", "-", "."}
          /\ Len(chars) >= i + 3
          /\ chars[i + 1] = "/" /\ chars[i + 2] = "/"
          /\ chars[i + 3] \notin {"/", "?", "#"}

ApiKeyMessages ==
    {JStr("API key is required. Please provide a valid API key in the configuration."),
     JStr("API key cannot be empty. Please provide a valid API key.")}
TimeoutMessage == JStr("Timeout must be a positive number in seconds.")

\* C11: the constructor raises WiilConfigurationError for a missing, empty
\* or blank API key, for a base URL without scheme or network location, and
\* for a timeout that is zero or negative; the error is the one of the first
\* failing check in the order key, URL, timeout.
C11_ConfigCheckedInOrder ==
    Constructing =>
        /\ BlankKey(last.api_key) =>
              Raised("WiilConfigurationError") /\ result.exc.message \in ApiKeyMessages
        /\ (~BlankKey(last.api_key) /\ ~SchemeAndHost(last.base_url)) =>
              /\ Raised("WiilConfigurationError")
              /\ result.exc.message \notin ApiKeyMessages \cup {TimeoutMessage}
        /\ (~BlankKey(last.api_key) /\ SchemeAndHost(last.base_url) /\ ~(last.timeout > 0)) =>
              Raised("WiilConfigurationError") /\ result.exc.message = TimeoutMessage

C11_Witness ==
    /\ Constructing
    /\ last.api_key = Str(<<" ", "\t">>)
    /\ last.base_url = Str(<<"h", "t", "t", "p", ":", "/", "/">>)
    /\ last.timeout = 0
    /\ Raised("WiilConfigurationError")
    /\ result.exc.message = JStr("API key cannot be empty. Please provide a valid API key.")

\* C12: when the constructor raises WiilConfigurationError there is no
\* transport, no resource wrapper, and no request or call has been made.
C12_RejectedBeforeTransport ==
    Raised("WiilConfigurationError") =>
        /\ http = NoHttp
        /\ client.attrs = {}
        /\ wire = <<>>
        /\ calls = 0

C12_Witness ==
    /\ Constructing
    /\ last.api_key = Str(<<"test-api-key">>)
    /\ last.base_url = Str(DefaultBaseUrlChars)
    /\ last.timeout = -1
    /\ Raised("WiilConfigurationError")
    /\ http = NoHttp /\ client.attrs = {}

\* A string given as its characters, without its trailing "/" characters
Trimmed(chars) ==
    LET kept == {i \in DOMAIN chars : chars[i] # "/"} IN
    IF kept = {} THEN <<>> ELSE SubSeq(chars, 1, CHOOSE i \in kept : \A j \in kept : j <= i)

\* The relative path of the wrapper call just made
RelativePath ==
    CASE last.op = "organizations.get" -> "/organizations"
      [] last.op \in {"projects.create", "projects.update"} -> "/projects"
      [] last.op \in {"projects.get", "projects.delete"} -> "/projects/" \o last.args.project_id
      [] last.op = "projects.list" ->
            "/projects" \o QueryString(Params(<< <<"page", last.args.page>>,
                                                 <<"pageSize", last.args.page_size>>,
                                                 <<"sortBy", last.args.sort_by>>,
                                                 <<"sortDirection", last.args.sort_direction>> >>))
      [] last.op = "customers.get_by_phone" ->
            "/customers/phone/" \o Joined(Quote(last.args.value, {}))

\* C13: every request a client issues goes to the base URL it was
\* constructed with (trailing "/" removed) followed by the relative path, and
\* carries the API key it was constructed with in the header X-WIIL-API-Key,
\* whatever was called before.
C13_BaseUrlAndKeyOnEveryRequest ==
    \A i \in DOMAIN wire :
        /\ wire[i].url = Joined(Trimmed(client.config.base_url)) \o RelativePath
        /\ wire[i].headers["X-WIIL-API-Key"] = client.config.api_key
        /\ client.config.api_key \in {"test-api-key", "other-key"}

C13_Witness ==
    /\ calls = 2
    /\ last.op = "projects.delete"
    /\ wire # <<>>
    /\ wire[1].url = "http://a/projects/proj_123"
    /\ wire[1].headers["X-WIIL-API-Key"] = "other-key"

\* The call just made was a list method and put a request on the wire
Listed == last.op \in {"projects.list", "customers.list"} /\ wire # <<>>

\* The text of a pagination argument in a query string
ArgumentText(v) ==
    CASE v = JNum(0) -> "0"
      [] v = JNum(2) -> "2"
      [] v = JNum(50) -> "50"
      [] v = Str(<<"d", "e", "s", "c">>) -> "desc"
      [] v = Str(<<"c", "r", "e", "a", "t", "e", "d", " ", "a", "t">>) -> "created+at"

\* name=value for an argument passed non-null, "" otherwise; sep precedes it
QueryPart(args, arg, wireName, sep) ==
    IF arg \in DOMAIN args /\ args[arg] # JNull
    THEN sep \o wireName \o "=" \o ArgumentText(args[arg])
    ELSE ""

\* Whether one of the arguments was passed non-null
Passed(args, names) == \E a \in names : a \in DOMAIN args /\ args[a] # JNull

\* C14: a list method puts each pagination argument it accepts in the query
\* string if and only if it was passed non-null, under the wire names page,
\* pageSize, sortBy, sortDirection, in that order; with no argument the URL
\* is the bare path without "?".
C14_PaginationInQuery ==
    Listed =>
        LET args == last.args
            path == IF last.op = "projects.list" THEN "/projects" ELSE "/customers"
        IN wire[1].url =
              DefaultBaseUrl \o path
              \o (IF Passed(args, {"page", "page_size", "sort_by", "sort_direction"}) THEN "?" ELSE "")
              \o QueryPart(args, "page", "page", "")
              \o QueryPart(args, "page_size", "pageSize",
                           IF Passed(args, {"page"}) THEN "&" ELSE "")
              \o QueryPart(args, "sort_by", "sortBy",
                           IF Passed(args, {"page", "page_size"}) THEN "&" ELSE "")
              \o QueryPart(args, "sort_direction", "sortDirection",
                           IF Passed(args, {"page", "page_size", "sort_by"}) THEN "&" ELSE "")

C14_Witness ==
    /\ Listed /\ last.op = "projects.list"
    /\ last.args = [page |-> JNum(2), page_size |-> JNum(50), sort_by |-> JNull,
                    sort_direction |-> JNull]
    /\ wire[1].url = "https://api.wiil.io/v1/projects?page=2&pageSize=50"

\* ASCII codes of the characters of the model that are not unreserved
AsciiCode(c) ==
    CASE c = " " -> 32 [] c = "#" -> 35 [] c = "%" -> 37 [] c = "&" -> 38
      [] c = "+" -> 43 [] c = "/" -> 47 [] c = ":" -> 58 [] c = "=" -> 61
      [] c = "?" -> 63 [] c = "@" -> 64

HexDigit(n) ==
    <<"0", "1", "2", "3", "4", "5", "6", "7", "8", "9", "A", "B", "C", "D", "E", "F">>[n + 1]

\* The unreserved characters of RFC 3986
Unreserved == Letters \cup Digits \cup {"-", ".", "_", "~"}

\* A string as one percent-encoded path segment
RECURSIVE Segment(_)
Segment(chars) ==
    IF chars = <<>> THEN ""
    ELSE LET c == Head(chars) IN
         (IF c \in Unreserved THEN c
          ELSE "%" \o HexDigit(AsciiCode(c) \div 16) \o HexDigit(AsciiCode(c) % 16))
         \o Segment(Tail(chars))

\* The call just made was a lookup by phone number or e-mail address
LookedUp == last.op \in {"customers.get_by_phone", "customers.get_by_email"} /\ wire # <<>>

\* C15: get_by_phone and get_by_email request /customers/phone/<segment> and
\* /customers/email/<segment>, the segment being the argument with every
\* character outside the unreserved set percent-encoded.
C15_LookupSegmentEncoded ==
    LookedUp =>
        wire[1].url =
           DefaultBaseUrl
           \o (IF last.op = "customers.get_by_phone" THEN "/customers/phone/" ELSE "/customers/email/")
           \o Segment(last.args.value)

C15_Witness ==
    /\ LookedUp /\ last.op = "customers.get_by_phone"
    /\ last.args.value = <<"+", "1", "2", "3", "4", "5", "6", "7", "8", "9", "0">>
    /\ wire[1].url = "https://api.wiil.io/v1/customers/phone/%2B1234567890"

\* obj.name in Python: the field of a model instance; a dict has no such
\* attribute and the access raises AttributeError
GetAttr(obj, name) ==
    IF obj.k = "model" /\ name \in DOMAIN obj.v THEN Return(obj.v[name])
    ELSE Raise(LibError("AttributeError", "object has no attribute '" \o name \o "'"))

\* The client's field name for a wire name
FieldName(wireName) ==
    CASE wireName = "companyName" -> "company_name"
      [] wireName = "businessVerticalId" -> "business_vertical_id"
      [] wireName = "isDefault" -> "is_default"
      [] wireName = "regionId" -> "region_id"
      [] wireName = "totalCount" -> "total_count"
      [] wireName = "pageSize" -> "page_size"
      [] wireName = "totalPages" -> "total_pages"
      [] wireName = "hasNextPage" -> "has_next_page"
      [] wireName = "hasPreviousPage" -> "has_previous_page"
      [] OTHER -> wireName

\* The wrapper call just made met a 2xx answer whose envelope holds an object
EnvelopedAnswer ==
    /\ last.op \notin Verbs \cup {"none", "WiilClient"}
    /\ wire # <<>>
    /\ last.reply.k = "http" /\ last.reply.status \in 200..299
    /\ last.reply.text.k = "json"
    /\ last.reply.text.v.k = "obj"
    /\ "data" \in DOMAIN last.reply.text.v.v
    /\ last.reply.text.v.v["data"].k = "obj"

\* The data of that envelope
AnswerData == last.reply.text.v.v["data"]

SingleEntityOps ==
    {"organizations.get", "projects.get", "projects.create", "projects.update",
     "customers.create", "customers.update"}

\* C16 (as claimed): get, create and update return an object whose fields
\* are the entries of the envelope's data, each under the client's
\* snake_case name of its wire name.
C16_EntityFieldsMapped ==
    (last.op \in SingleEntityOps /\ EnvelopedAnswer) =>
        /\ result.kind = "return"
        /\ \A w \in DOMAIN AnswerData.v :
              GetAttr(result.value, FieldName(w)) = Return(AnswerData.v[w])

\* C17 (as claimed): a list method returns an object whose data holds the
\* items of the answer, as many and in the same order, and whose meta holds
\* total_count, page, page_size, has_next_page and has_previous_page as the
\* answer's totalCount, page, pageSize, hasNextPage and hasPreviousPage.
C17_ListResultExposed ==
    (Listed /\ EnvelopedAnswer /\ {"data", "meta"} \subseteq DOMAIN AnswerData.v) =>
        /\ result.kind = "return"
        /\ LET data == GetAttr(result.value, "data")
               meta == GetAttr(result.value, "meta")
               items == AnswerData.v["data"].v
           IN /\ data.kind = "return"
              /\ Len(data.value.v) = Len(items)
              /\ \A i \in DOMAIN items :
                    GetAttr(data.value.v[i], "id") = Return(items[i].v["id"])
              /\ meta.kind = "return"
              /\ \A w \in {"totalCount", "page", "pageSize", "hasNextPage", "hasPreviousPage"} :
                    GetAttr(meta.value, FieldName(w)) = Return(AnswerData.v["meta"].v[w])

\* The keyword arguments lack nothing but the id the server assigns
ValidButForId(schema, kw) ==
    /\ "id" \notin DOMAIN kw
    /\ Violations(schema, kw @@ [id |-> JStr("proj_123")]) = <<>>

\* C18 (as claimed): create called with every field the user must supply and
\* without an id issues exactly one POST to the resource's base path and
\* returns the entity the server answers with.
C18_CreateWithoutId ==
    (/\ last.op \in {"projects.create", "customers.create"}
     /\ ValidButForId(last.schema, last.kwargs))
    => /\ Len(wire) = 1
       /\ wire[1].method = "POST"
       /\ wire[1].url = DefaultBaseUrl \o
                           (IF last.op = "projects.create" THEN "/projects" ELSE "/customers")
       /\ EnvelopedAnswer => result = Return(AnswerData)

\* C19 (as claimed): customers.update(customer_id, **fields) called with the
\* fields to change and no id issues exactly one PATCH to
\* /customers/{customer_id} carrying those fields and returns the customer
\* the server answers with.
C19_UpdateWithoutId ==
    (/\ last.op = "customers.update"
     /\ ValidButForId(last.schema, last.kwargs))
    => /\ Len(wire) = 1
       /\ wire[1].method = "PATCH"
       /\ wire[1].url = DefaultBaseUrl \o "/customers/" \o last.customer_id
       /\ \A f \in DOMAIN last.kwargs : f \in DOMAIN wire[1].json.v
       /\ EnvelopedAnswer => result = Return(AnswerData)

\* The server echoed the body of the request as the data of its answer
Echoed == EnvelopedAnswer /\ AnswerData = wire[1].json

\* C20 (as claimed): when create is called with a payload its schema accepts
\* and the server echoes the body it was sent, the object returned has, for
\* every field the payload set, the value the payload gave it.
C20_CreateRoundTrip ==
    (/\ last.op \in {"projects.create", "customers.create"}
     /\ Violations(last.schema, last.kwargs) = <<>>
     /\ Echoed)
    => /\ result.kind = "return"
       /\ \A f \in DOMAIN last.kwargs :
             GetAttr(result.value, f) = Return(last.kwargs[f])

\* The same get call as the one before, meeting the same answer
SameGetAgain ==
    /\ last.op \in {"organizations.get", "projects.get"}
    /\ wire # <<>>
    /\ calls' = calls + 1
    /\ last' = last

\* A request without the cookies the session attached to it
WithoutCookies(request) == [request EXCEPT !.cookies = {}]

\* C21 (as claimed): the same get call made twice against an unchanged
\* endpoint returns equal results, and sends the same request, both times.
C21_SameGetSameRequest ==
    [][SameGetAgain => (result' = result /\ wire' = wire)]_vars

\* C21 (amended): the same get call made twice against an unchanged endpoint
\* returns equal results both times and sends the same method, URL, headers,
\* body and timeout; the second request differs at most by the cookies the
\* session kept from the first answer, the only state a call leaves behind.
C21_SameGetSameResult ==
    [][SameGetAgain =>
          /\ result' = result
          /\ Len(wire') = 1 /\ Len(wire) = 1
          /\ WithoutCookies(wire'[1]) = WithoutCookies(wire[1])
          /\ wire'[1].cookies = wire[1].cookies \cup CookiesSet(wire, last.reply)
          /\ [http' EXCEPT !.cookies = {}] = [http EXCEPT !.cookies = {}]]_vars

C21_Witness ==
    /\ calls = 2
    /\ last.op = "organizations.get"
    /\ last.reply = SetsCookie(Enveloped(200, OrganizationData), "sid=abc")
    /\ wire[1].cookies = {"sid=abc"}
    /\ result = Return(OrganizationData)

\* C22: delete, answered 2xx with an empty body, returns None without
\* raising; answered 2xx with a JSON body it returns the body's data entry
\* when the body is an object with that key (data: true gives True), and the
\* whole parsed body otherwise.
C22_DeleteEmptyBodyIsNone ==
    (Answered2xx /\ last.op = "delete") =>
        LET text == last.reply.text IN
        /\ text = RawText("") => result = Return(JNull)
        /\ text.k = "json" =>
              result = Return(IF text.v.k = "obj" /\ "data" \in DOMAIN text.v.v
                              THEN text.v.v["data"] ELSE text.v)

C22_Witness ==
    /\ Answered2xx /\ last.op = "delete"
    /\ last.reply = HttpReply(204, RawText(""))
    /\ result = Return(JNull)

\* The verb and sub-path the wrappers without a request schema are written
\* to use, by the wrapper called last
FixedEndpoint ==
    CASE last.op = "organizations.get" -> <<"GET", "/organizations">>
      [] last.op = "projects.get" -> <<"GET", "/projects/" \o last.args.project_id>>
      [] last.op = "projects.delete" -> <<"DELETE", "/projects/" \o last.args.project_id>>
      [] last.op = "reservations.cancel" ->
            <<"POST", "/reservations/" \o last.args.reservation_id \o "/cancel">>
      [] last.op = "menus.get_popular_items" ->
            <<"GET", "/menu-management/items/popular"
                        \o (IF "pageSize" \in DOMAIN last.args THEN "?limit=5" ELSE "")>>

\* The last call was a wrapper call whose arguments the signature accepts
AcceptedWrapperCall ==
    \/ last.op \in {"organizations.get", "projects.get", "projects.delete",
                    "reservations.cancel"}
    \/ last.op = "menus.get_popular_items" /\ DOMAIN last.args \subseteq {"pageSize"}

\* C23: a wrapper call with arguments its signature accepts makes exactly one
\* transport call, with the wrapper's fixed verb and sub-path; it does not
\* hold: menus.get_popular_items raises NameError before any transport call
C23_OneTransportCallPerWrapperCall ==
    AcceptedWrapperCall =>
        /\ Len(wire) = 1
        /\ wire[1].method = FixedEndpoint[1]
        /\ wire[1].url = http.base_url \o FixedEndpoint[2]

\* The same statement without menus.get_popular_items
C23_OneTransportCallElsewhere ==
    (AcceptedWrapperCall /\ last.op # "menus.get_popular_items") =>
        /\ Len(wire) = 1
        /\ wire[1].method = FixedEndpoint[1]
        /\ wire[1].url = http.base_url \o FixedEndpoint[2]

\* reservations.cancel made its one POST
C23_CancelWitness ==
    /\ last.op = "reservations.cancel"
    /\ Len(wire) = 1
    /\ wire[1].method = "POST"
    /\ wire[1].url = "https://api.wiil.io/v1/reservations/rsv_123/cancel"

\* C24: a constructed client has created exactly one transport with one
\* session, every resource wrapper refers to that transport, and this stays
\* so after any number of calls
C24_OneTransportSharedByAll ==
    "_http" \in client.attrs =>
        /\ client.transports = 1
        /\ http.sessions = 1
        /\ DOMAIN client.http_of = ResourceAttributes
        /\ \A a \in ResourceAttributes : client.http_of[a] = 1

\* Two calls through wrappers of a constructed client, the second one sent
C24_Witness ==
    /\ calls = 2
    /\ last.op = "projects.list"
    /\ wire # <<>>
    /\ client.transports = 1
    /\ client.http_of["projects"] = 1
    /\ http.sessions = 1

\* The same call made alone on a freshly constructed transport
Alone(call, reply) ==
    IF IsPost(call)
    THEN HttpPost(HttpClientInit(client.config), call.path, call.data, call.schema,
                  call.kwargs, reply)
    ELSE HttpGet(HttpClientInit(client.config), call.path, call.kwargs, reply)

\* C25: calls made by two threads on one client each issue their own single
\* request and get the result of their own response, as if made alone, and
\* none changes the base URL, the timeout or the headers the other one sees,
\* whatever the interleaving
C25_ConcurrentCallsIndependent ==
    /\ http.base_url = HttpClientInit(client.config).base_url
    /\ http.timeout = HttpClientInit(client.config).timeout
    /\ http.headers = HttpClientInit(client.config).headers
    /\ \A t \in Threads :
          /\ threads[t].pc = "sent" => Len(threads[t].sent) = 1
          /\ threads[t].pc = "done" =>
                \E alone \in {Alone(threads[t].call, threads[t].reply)} :
                    /\ Len(threads[t].sent) = Len(alone.wire)
                    /\ \A i \in DOMAIN alone.wire :
                          WithoutCookies(threads[t].sent[i]) = WithoutCookies(alone.wire[i])
                    /\ threads[t].result = alone.outcome

\* Both calls were in flight together (the second was sent before the first
\* one's cookie arrived) and each ended with the outcome of its own response
C25_Witness ==
    /\ threads[1].pc = "done" /\ threads[2].pc = "done"
    /\ threads[1].call = [path |-> "/organizations", kwargs |-> TimeoutKwargs]
    /\ threads[1].reply = SetsCookie(Enveloped(200, OrganizationData), "sid=abc")
    /\ threads[1].result = Return(OrganizationData)
    /\ IsPost(threads[2].call)
    /\ Len(threads[2].sent) = 1
    /\ threads[2].sent[1].cookies = {}
    /\ threads[2].sent[1].timeout = DefaultTimeout
    /\ threads[2].reply.k = "http" /\ threads[2].reply.status = 404
    /\ threads[2].result.kind = "raise"
    /\ threads[2].result.exc.cls = "WiilAPIError"

\* The transport's owner went away in this step
TornDown == "_http" \in client.attrs /\ "_http" \notin client'.attrs

\* C26: a call, succeeding or failing, is made on an open session and leaves
\* it open; tearing the transport down closes the session; a closed session
\* stays closed and no request is issued on it
C26_SessionOpenUntilTeardown ==
    [][/\ calls' # calls => (~http.closed /\ ~http'.closed /\ http'.sessions = http.sessions)
       /\ TornDown => http'.closed
       /\ ~TornDown => http'.closed = http.closed
       /\ http.closed => (calls' = calls /\ wire' = wire)]_vars

\* The session was closed by the teardown after two calls, the last of which
\* sent a request and failed
C26_Witness ==
    /\ http.closed
    /\ calls = 2
    /\ wire # <<>>
    /\ Raised("WiilNetworkError")
    /\ "_http" \notin client.attrs

\* PaginationMeta's constraints on page and pageSize, and the next-page flag
\* agreeing with the page counts
MetaInvariant(meta) ==
    /\ meta["page"].v >= 1
    /\ meta["pageSize"].v > 0 /\ meta["pageSize"].v <= 1000
    /\ meta["hasNextPage"] = JBool(meta["page"].v < meta["totalPages"].v)

\* C27: the meta block of every page a list method returns has page >= 1,
\* 0 < pageSize <= 1000 and hasNextPage exactly when page < totalPages; it
\* does not hold: list returns the answer's data as it came
C27_ReturnedMetaSatisfiesInvariant ==
    (Listed /\ result.kind = "return" /\ IsDict(result.value)
            /\ "meta" \in DOMAIN result.value.v) =>
        MetaInvariant(result.value.v["meta"].v)

\* A page numbered 0 of 5000 items was returned as the result
C27_InvalidMetaReturned ==
    /\ Listed /\ last.op = "projects.list"
    /\ result.kind = "return"
    /\ result.value.v["meta"].v["page"] = JNum(0)
    /\ result.value.v["meta"].v["pageSize"] = JNum(5000)

\* A 2xx answer whose JSON body is an object with the key data
DataAnswered ==
    /\ Answered2xx /\ JsonAnswer
    /\ last.reply.text.v.k = "obj"
    /\ "data" \in DOMAIN last.reply.text.v.v

\* C28 (as claimed): a 2xx answer whose body has success false is never
\* returned as a normal result
C28_DataOnlyWhenSuccessTrue ==
    (DataAnswered /\ "success" \in DOMAIN last.reply.text.v.v
                  /\ last.reply.text.v.v["success"] = JBool(FALSE)) =>
        result.kind # "return"

\* C28 (amended): on a 2xx answer the transport returns the body's data
\* whenever the body has that key, whether success is true, false, null or
\* absent
C28_DataReturnedWhateverSuccess ==
    DataAnswered =>
        /\ result.kind = "return"
        /\ result.value = last.reply.text.v.v["data"]
        /\ "success" \in DOMAIN last.reply.text.v.v =>
              last.reply.text.v.v["success"] \in SuccessValues

\* get met 200 with success false and was given the data
C28_Witness ==
    /\ last.op = "get"
    /\ DataAnswered
    /\ last.reply.text.v = JObj([data |-> JObj([id |-> JStr("proj_123")]),
                                 success |-> JBool(FALSE)])
    /\ result = Return(JObj([id |-> JStr("proj_123")]))

\* C29: the JSON body a create or update method puts on the wire is the
\* by-alias serialization the wrapper built (region_id is sent as regionId);
\* it does not hold: the transport validates that dict again and sends the
\* model dumped under its field names
C29_WireBodyByAlias ==
    (last.op \in WrapperOps /\ wire # <<>>) =>
        \E built \in {Construct(last.schema, last.kwargs)} :
            /\ built.kind = "return"
            /\ wire[1].json = ModelDump(built.value, TRUE)

\* The same with the serialization under field names, which is what is sent
C29_WireBodyByFieldName ==
    (last.op \in WrapperOps /\ wire # <<>>) =>
        \E built \in {Construct(last.schema, last.kwargs)} :
            /\ built.kind = "return"
            /\ wire[1].json = ModelDump(built.value, FALSE)

\* projects.create(region_id=...) sent region_id, not regionId
C29_SnakeCaseSent ==
    /\ last.op = "projects.create"
    /\ wire # <<>>
    /\ "region_id" \in DOMAIN last.kwargs
    /\ "region_id" \in DOMAIN wire[1].json.v
    /\ "regionId" \notin DOMAIN wire[1].json.v

\* The characters that end a path segment or start a query or a fragment
SegmentDelimiters == {"/", "?", "#", "&"}

\* The fixed text before and after the identifier in the path of a lookup
LookupPath ==
    CASE last.op = "customers.get_by_phone" -> <<"/customers/phone/", "">>
      [] last.op = "customers.get_by_email" -> <<"/customers/email/", "">>
      [] last.op = "phone_configs.get_by_phone_number" ->
            <<"/phone-configurations/by-phone-number/", "">>
      [] last.op = "deployment_channels.get_by_identifier" ->
            <<"/deployment-channels/by-identifier/", "?type=" \o last.args.channel_type>>

\* The URL requested holds the identifier as one path segment: encoded, or
\* as it is when it has no delimiter
InOneSegment ==
    \/ wire[1].url = http.base_url \o LookupPath[1] \o Segment(last.args.value) \o LookupPath[2]
    \/ /\ \A i \in DOMAIN last.args.value : last.args.value[i] \notin SegmentDelimiters
       /\ wire[1].url = http.base_url \o LookupPath[1] \o Joined(last.args.value)
                                     \o LookupPath[2]

\* C30: an identifier interpolated into the request path stays within one
\* segment of the method's sub-path, whatever characters it has; it does not
\* hold: only the customers lookups quote the identifier
C30_IdentifierStaysInSegment ==
    (last.op \in {"customers.get_by_phone", "customers.get_by_email",
                  "phone_configs.get_by_phone_number",
                  "deployment_channels.get_by_identifier"} /\ wire # <<>>) =>
        InOneSegment

\* The same statement for the customers lookups alone
C30_QuotedLookupsStayInSegment ==
    LookedUp => InOneSegment

\* get_by_identifier requested another path, with a query of the caller's
C30_IdentifierEscaped ==
    /\ last.op = "deployment_channels.get_by_identifier"
    /\ wire # <<>>
    /\ wire[1].url =
          "https://api.wiil.io/v1/deployment-channels/by-identifier/a/b?x=1&y#z?type=CALLS"

============================================================================
